---- MODULE Spec2Model ----
(***************************************************************************)
(* Model of fons/subsidia/rs/collectiones.rs: the collection helpers of    *)
(* the Rust target (tabula = HashMap, copia = HashSet, lista = Vec).       *)
(*                                                                         *)
(* Every helper is a pure function.  The state holds the arguments of a    *)
(* call (drawn in Init, never changed afterwards), the helper invoked      *)
(* last (op) and what it returned (out).  A HashMap / HashSet is modelled  *)
(* by its value (a function with a finite domain / a set); the order in    *)
(* which the host container is iterated is not part of that value, so     *)
(* every helper that iterates one takes the order of that traversal as an  *)
(* argument and the action that invokes it chooses the order freely.       *)
(***************************************************************************)
EXTENDS Integers, Sequences, FiniteSets

\* ---------------------------------------------------------------- bounds
MaxKey   == 2   \* keys of a tabula are 1..MaxKey
MaxVal   == 2   \* a tabula has MaxVal possible values, 11, 12, ...
MaxKeys  == 3   \* longest key list handed to selecta / omissa
MaxElem  == 3   \* elements of a copia / lista are 1..MaxElem
MaxLen   == 3   \* longest lista
MaxGroup == 2   \* key_fn maps elements into 1..MaxGroup

Keys      == 1..MaxKey
Vals      == {10 + i : i \in 1..MaxVal}   \* kept apart from the keys
Elems     == 1..MaxElem
GroupKeys == 1..MaxGroup

\* all sequences over S of length at most n
SeqsUpTo(S, n) == UNION {[1..m -> S] : m \in 0..n}

Tabulae  == UNION {[D -> Vals] : D \in SUBSET Keys}
KeyLists == SeqsUpTo(Keys, MaxKeys)
Copiae   == SUBSET Elems
Listae   == SeqsUpTo(Elems, MaxLen)
Counts   == 0..(MaxLen + 1)          \* n of lista_ultima, beyond the longest lista
Preds    == [Elems -> BOOLEAN]       \* pred of lista_partire
KeyFns   == [Elems -> GroupKeys]     \* key_fn of lista_congrega

VARIABLES
    tab_a,    \* tabula helpers: a / map
    tab_b,    \* tabula_conflata: b
    keys,     \* tabula_selecta / tabula_omissa: keys
    cop_a,    \* copia helpers: a / set
    cop_b,    \* copia helpers: b
    list,     \* lista helpers: list
    elem,     \* lista_addita / lista_praeposita: elem
    n,        \* lista_ultima: n
    pred,     \* lista_partire: pred
    key_fn,   \* lista_congrega: key_fn
    op,       \* the helper invoked last ("none" before the first call)
    out       \* its return value

inputs == <<tab_a, tab_b, keys, cop_a, cop_b, list, elem, n, pred, key_fn>>
vars   == <<tab_a, tab_b, keys, cop_a, cop_b, list, elem, n, pred, key_fn, op, out>>

\* ------------------------------------------------------- host containers

\* HashMap::new()
tabula_vacua == [k \in {} |-> 0]

\* HashMap::insert: a later insert of the same key replaces the value
insert(m, k, v) == [x \in (DOMAIN m) \cup {k} |-> IF x = k THEN v ELSE m[x]]

\* the orders in which a HashMap / HashSet holding exactly S may be iterated
RECURSIVE iter(_)
iter(S) == IF S = {} THEN {<<>>}
           ELSE UNION {{<<x>> \o t : t \in iter(S \ {x})} : x \in S}

\* map.iter() taken in the order ord: the (key, value) pairs
entries(m, ord) == [i \in 1..Len(ord) |-> <<ord[i], m[ord[i]]>>]

\* HashMap::extend / collect::<HashMap>: insert the pairs one after another
RECURSIVE extend(_, _)
extend(m, pairs) ==
    IF pairs = <<>> THEN m
    ELSE extend(insert(m, Head(pairs)[1], Head(pairs)[2]), Tail(pairs))

\* the elements of a slice, as collected into a HashSet
elementa(s) == {s[i] : i \in 1..Len(s)}

\* ------------------------------------------------------- tabula helpers

\* variant: an entry of b is added only where a has none (a wins a collision)
conflata_prima_vincit(a, b, ord) ==
    [k \in (DOMAIN a) \cup (DOMAIN b) |-> IF k \in DOMAIN a THEN a[k] ELSE b[k]]

\* result = a.clone(); result.extend(b.iter()...)
tabula_conflata(a, b, ord) == extend(a, entries(b, ord))

\* variant: the pair is built as (v, v) instead of (v, k)
inversa_sine_clave(map, ord) ==
    extend(tabula_vacua, [i \in 1..Len(ord) |-> <<map[ord[i]], map[ord[i]]>>])

\* map.iter().map(|(k, v)| (v, k)).collect()
tabula_inversa(map, ord) ==
    extend(tabula_vacua, [i \in 1..Len(ord) |-> <<map[ord[i]], ord[i]>>])

\* variant: find instead of filter, only the first entry met is kept
selecta_primum(map, ks, ord) ==
    LET key_set == elementa(ks)
        servat(e) == e[1] \in key_set
        found == SelectSeq(entries(map, ord), servat)
    IN extend(tabula_vacua, IF found = <<>> THEN <<>> ELSE <<Head(found)>>)

\* key_set = keys.iter().collect(); map.iter().filter(in key_set).collect()
tabula_selecta(map, ks, ord) ==
    LET key_set == elementa(ks)
        servat(e) == e[1] \in key_set
    IN extend(tabula_vacua, SelectSeq(entries(map, ord), servat))

\* variant: the filter is not negated, omissa keeps what selecta keeps
omissa_sine_negatione(map, ks, ord) ==
    LET key_set == elementa(ks)
        servat(e) == e[1] \in key_set
    IN extend(tabula_vacua, SelectSeq(entries(map, ord), servat))

\* key_set = keys.iter().collect(); map.iter().filter(not in key_set).collect()
tabula_omissa(map, ks, ord) ==
    LET key_set == elementa(ks)
        servat(e) == ~(e[1] \in key_set)
    IN extend(tabula_vacua, SelectSeq(entries(map, ord), servat))

\* map.iter().map(|(k, v)| (k, v)).collect::<Vec>()
tabula_in_lista(map, ord) == entries(map, ord)

\* -------------------------------------------------------- copia helpers

\* a.union(b).cloned().collect()
copia_unio(a, b) == a \cup b

\* a.intersection(b).cloned().collect()
copia_intersectio(a, b) == {x \in a : x \in b}

\* a.difference(b).cloned().collect()
copia_differentia(a, b) == {x \in a : x \notin b}

\* variant: the common elements are not left out
symmetrica_cum_communibus(a, b) == a \cup b

\* a.symmetric_difference(b).cloned().collect()
copia_symmetrica(a, b) == {x \in a : x \notin b} \cup {x \in b : x \notin a}

\* set.iter().cloned().collect::<Vec>()
copia_in_lista(set, ord) == ord

\* -------------------------------------------------------- lista helpers

\* result = list.to_vec(); result.push(elem)
lista_addita(l, e) == Append(l, e)

\* result = vec![elem]; result.extend(list.iter().cloned())
lista_praeposita(l, e) == <<e>> \o l

\* one step of the slice sort: the new element moves left past every
\* strictly greater element, so equal elements keep their input order
RECURSIVE insere(_, _)
insere(s, x) ==
    IF s = <<>> \/ s[Len(s)] <= x THEN Append(s, x)
    ELSE Append(insere(SubSeq(s, 1, Len(s) - 1), x), s[Len(s)])

\* <[T]>::sort
RECURSIVE sort(_)
sort(s) == IF s = <<>> THEN <<>>
           ELSE insere(sort(SubSeq(s, 1, Len(s) - 1)), s[Len(s)])

\* variant: sorted through an ordered set, which drops repeated elements
RECURSIVE ordinata_sine_iteratis(_)
ordinata_sine_iteratis(l) ==
    IF l = <<>> THEN <<>>
    ELSE LET front == SubSeq(l, 1, Len(l) - 1)
         IN IF l[Len(l)] \in elementa(front) THEN ordinata_sine_iteratis(front)
            ELSE insere(ordinata_sine_iteratis(front), l[Len(l)])

\* result = list.to_vec(); result.sort()
lista_ordinata(l) == sort(l)

\* list.iter().filter(|x| seen.insert(x)): insert is true for a new element
RECURSIVE unica_filter(_, _)
unica_filter(l, seen) ==
    IF l = <<>> THEN <<>>
    ELSE IF Head(l) \in seen THEN unica_filter(Tail(l), seen)
    ELSE <<Head(l)>> \o unica_filter(Tail(l), seen \cup {Head(l)})

\* variant: the last occurrence of each element is kept, not the first
RECURSIVE unica_ultima(_)
unica_ultima(l) ==
    IF l = <<>> THEN <<>>
    ELSE IF Head(l) \in elementa(Tail(l)) THEN unica_ultima(Tail(l))
    ELSE <<Head(l)>> \o unica_ultima(Tail(l))

\* seen = HashSet::new(); list.iter().filter(...).cloned().collect()
lista_unica(l) == unica_filter(l, {})

\* usize::saturating_sub
saturating_sub(x, y) == IF y > x THEN 0 ELSE x - y

\* the index at which lista_ultima starts to copy (0-based)
ultima_start(l, m) == saturating_sub(Len(l), m)

\* variant: list[..n] (clamped), the first n elements instead of the last
ultima_prima(l, m) == SubSeq(l, 1, IF m < Len(l) THEN m ELSE Len(l))

\* list[start..].to_vec()
lista_ultima(l, m) == SubSeq(l, ultima_start(l, m) + 1, Len(l))

\* result.entry(key_fn(item)).or_default().push(item) for each item
RECURSIVE congrega_iter(_, _, _)
congrega_iter(l, kf, result) ==
    IF l = <<>> THEN result
    ELSE LET item   == Head(l)
             k      == kf[item]
             bucket == IF k \in DOMAIN result THEN result[k] ELSE <<>>
         IN congrega_iter(Tail(l), kf, insert(result, k, Append(bucket, item)))

\* variant: result.insert(key, vec![item]), a bucket keeps its last item only
RECURSIVE congrega_insert(_, _)
congrega_insert(l, kf) ==
    IF l = <<>> THEN tabula_vacua
    ELSE LET front == SubSeq(l, 1, Len(l) - 1)
             item  == l[Len(l)]
         IN insert(congrega_insert(front, kf), kf[item], <<item>>)

\* result = HashMap::new(); for item in list { ... }
lista_congrega(l, kf) == congrega_iter(l, kf, tabula_vacua)

\* for item in list { if pred(item) { truthy.push } else { falsy.push } }
RECURSIVE partire_iter(_, _, _, _)
partire_iter(l, p, truthy, falsy) ==
    IF l = <<>> THEN <<truthy, falsy>>
    ELSE IF p[Head(l)] THEN partire_iter(Tail(l), p, Append(truthy, Head(l)), falsy)
    ELSE partire_iter(Tail(l), p, truthy, Append(falsy, Head(l)))

\* variant: the two vectors are returned in the wrong order
partire_inversa(l, p) ==
    LET r == partire_iter(l, p, <<>>, <<>>) IN <<r[2], r[1]>>

\* truthy = Vec::new(); falsy = Vec::new(); ...; (truthy, falsy)
lista_partire(l, p) == partire_iter(l, p, <<>>, <<>>)

\* --------------------------------------------------------------- actions

\* Arguments of the helpers that a call does not use stay at these values.
NullaTabula == tab_a = tabula_vacua /\ tab_b = tabula_vacua /\ keys = <<>>
NullaCopia  == cop_a = {} /\ cop_b = {}
NullumElem  == elem = 1
NullumN     == n = 0
NullumPred  == pred = [e \in Elems |-> FALSE]
NullaKeyFn  == key_fn = [e \in Elems |-> 1]

\* arguments of a tabula helper: (a, b) or (map, keys)
InitTabula ==
    /\ tab_a \in Tabulae
    /\ \/ tab_b \in Tabulae /\ keys = <<>>
       \/ tab_b = tabula_vacua /\ keys \in KeyLists
    /\ NullaCopia
    /\ list = <<>> /\ NullumElem /\ NullumN /\ NullumPred /\ NullaKeyFn

\* arguments of a copia helper: (a, b) or (set)
InitCopia ==
    /\ cop_a \in Copiae /\ cop_b \in Copiae
    /\ NullaTabula
    /\ list = <<>> /\ NullumElem /\ NullumN /\ NullumPred /\ NullaKeyFn

\* arguments of a lista helper: (list) with elem, n, pred or key_fn
InitLista ==
    /\ list \in Listae
    /\ \/ elem \in Elems /\ NullumN /\ NullumPred /\ NullaKeyFn
       \/ n \in Counts /\ NullumElem /\ NullumPred /\ NullaKeyFn
       \/ pred \in Preds /\ NullumElem /\ NullumN /\ NullaKeyFn
       \/ key_fn \in KeyFns /\ NullumElem /\ NullumN /\ NullumPred
    /\ NullaTabula /\ NullaCopia

Init ==
    /\ InitTabula \/ InitCopia \/ InitLista
    /\ op = "none" /\ out = <<>>

Conflata ==
    \E ord \in iter(DOMAIN tab_b) :
        /\ op' = "tabula_conflata"
        /\ out' = tabula_conflata(tab_a, tab_b, ord)
        /\ UNCHANGED inputs

Inversa ==
    \E ord \in iter(DOMAIN tab_a) :
        /\ op' = "tabula_inversa"
        /\ out' = tabula_inversa(tab_a, ord)
        /\ UNCHANGED inputs

Selecta ==
    \E ord \in iter(DOMAIN tab_a) :
        /\ op' = "tabula_selecta"
        /\ out' = tabula_selecta(tab_a, keys, ord)
        /\ UNCHANGED inputs

Omissa ==
    \E ord \in iter(DOMAIN tab_a) :
        /\ op' = "tabula_omissa"
        /\ out' = tabula_omissa(tab_a, keys, ord)
        /\ UNCHANGED inputs

TabulaInLista ==
    \E ord \in iter(DOMAIN tab_a) :
        /\ op' = "tabula_in_lista"
        /\ out' = tabula_in_lista(tab_a, ord)
        /\ UNCHANGED inputs

Unio ==
    /\ op' = "copia_unio"
    /\ out' = copia_unio(cop_a, cop_b)
    /\ UNCHANGED inputs

Intersectio ==
    /\ op' = "copia_intersectio"
    /\ out' = copia_intersectio(cop_a, cop_b)
    /\ UNCHANGED inputs

Differentia ==
    /\ op' = "copia_differentia"
    /\ out' = copia_differentia(cop_a, cop_b)
    /\ UNCHANGED inputs

Symmetrica ==
    /\ op' = "copia_symmetrica"
    /\ out' = copia_symmetrica(cop_a, cop_b)
    /\ UNCHANGED inputs

CopiaInLista ==
    \E ord \in iter(cop_a) :
        /\ op' = "copia_in_lista"
        /\ out' = copia_in_lista(cop_a, ord)
        /\ UNCHANGED inputs

Addita ==
    /\ op' = "lista_addita"
    /\ out' = lista_addita(list, elem)
    /\ UNCHANGED inputs

Praeposita ==
    /\ op' = "lista_praeposita"
    /\ out' = lista_praeposita(list, elem)
    /\ UNCHANGED inputs

Ordinata ==
    /\ op' = "lista_ordinata"
    /\ out' = lista_ordinata(list)
    /\ UNCHANGED inputs

Unica ==
    /\ op' = "lista_unica"
    /\ out' = lista_unica(list)
    /\ UNCHANGED inputs

Ultima ==
    /\ op' = "lista_ultima"
    /\ out' = lista_ultima(list, n)
    /\ UNCHANGED inputs

Congrega ==
    /\ op' = "lista_congrega"
    /\ out' = lista_congrega(list, key_fn)
    /\ UNCHANGED inputs

Partire ==
    /\ op' = "lista_partire"
    /\ out' = lista_partire(list, pred)
    /\ UNCHANGED inputs

Next ==
    \/ Conflata
    \/ Inversa
    \/ Selecta
    \/ Omissa
    \/ TabulaInLista
    \/ Unio
    \/ Intersectio
    \/ Differentia
    \/ Symmetrica
    \/ CopiaInLista
    \/ Addita
    \/ Praeposita
    \/ Ordinata
    \/ Unica
    \/ Ultima
    \/ Congrega
    \/ Partire

Spec == Init /\ [][Next]_vars

\* ------------------------------------------------------------ properties

Injective(m) == \A j, k \in DOMAIN m : m[j] = m[k] => j = k

\* how often e occurs in s
Count(s, e) == Cardinality({i \in 1..Len(s) : s[i] = e})

\* index of the first occurrence of x in l
FirstIdx(l, x) == CHOOSE i \in 1..Len(l) : l[i] = x /\ \A j \in 1..(i - 1) : l[j] # x

\* sum of the lengths of the buckets of m with keys in D
RECURSIVE SumLen(_, _)
SumLen(m, D) ==
    IF D = {} THEN 0
    ELSE LET k == CHOOSE x \in D : TRUE IN Len(m[k]) + SumLen(m, D \ {k})

\* C1: merge(a, b) has exactly the keys of a and of b, and each key maps
\* to b's value if b has the key and to a's value otherwise.
C1_ConflataCorrect ==
    op = "tabula_conflata" =>
        /\ DOMAIN out = (DOMAIN tab_a) \cup (DOMAIN tab_b)
        /\ \A k \in DOMAIN out :
               out[k] = IF k \in DOMAIN tab_b THEN tab_b[k] ELSE tab_a[k]

\* a merge with a collision on different values and a key that only a has
C1_Witness ==
    /\ op = "tabula_conflata"
    /\ \E k \in (DOMAIN tab_a) \cap (DOMAIN tab_b) : tab_a[k] # tab_b[k]
    /\ (DOMAIN tab_a) \ (DOMAIN tab_b) # {}

\* sel and om split m by membership of the key in ks, values unchanged
Partitio(m, ks, sel, om) ==
    /\ (DOMAIN sel) \cup (DOMAIN om) = DOMAIN m
    /\ (DOMAIN sel) \cap (DOMAIN om) = {}
    /\ \A k \in DOMAIN sel : sel[k] = m[k] /\ k \in elementa(ks)
    /\ \A k \in DOMAIN om : om[k] = m[k] /\ k \notin elementa(ks)

\* C2: what select(m, ks) returned and what omit(m, ks) returns (under any
\* iteration order, and the other way round) partition m: every entry of m
\* is in exactly one of them, unchanged, in select iff its key occurs in
\* ks, and neither has a key that m has not.
C2_SelectaOmissaPartition ==
    /\ op = "tabula_selecta" =>
           \A ord \in iter(DOMAIN tab_a) :
               Partitio(tab_a, keys, out, tabula_omissa(tab_a, keys, ord))
    /\ op = "tabula_omissa" =>
           \A ord \in iter(DOMAIN tab_a) :
               Partitio(tab_a, keys, tabula_selecta(tab_a, keys, ord), out)

\* a select that kept an entry, with a repeated key and a key absent from m
C2_Witness ==
    /\ op = "tabula_selecta"
    /\ \E i, j \in 1..Len(keys) : i # j /\ keys[i] = keys[j]
    /\ \E i \in 1..Len(keys) : keys[i] \notin DOMAIN tab_a
    /\ DOMAIN out # {}

\* C3 (as stated): a second invocation of the same operation on the same
\* arguments returns the same output as the first, for every operation.
C3_Deterministic == [][op' = op => out' = out]_vars

OrdoExpositus == {"tabula_inversa", "tabula_in_lista", "copia_in_lista"}

\* C3 (amended): a second invocation of the same operation on the same
\* arguments returns the same output, except for toPairs and toList, whose
\* two outputs are permutations of each other, and for invert on a mapping
\* whose values are not injective, whose two outputs have the same keys,
\* each mapped to a key of m that holds it.
C3_DeterministicNisiOrdo ==
    [][op' = op =>
        /\ op \notin OrdoExpositus => out' = out
        /\ op = "tabula_inversa" =>
               /\ Injective(tab_a) => out' = out
               /\ DOMAIN out' = DOMAIN out
               /\ \A v \in DOMAIN out' : tab_a[out'[v]] = v
        /\ op \in {"tabula_in_lista", "copia_in_lista"} =>
               /\ Len(out') = Len(out)
               /\ \A i \in 1..Len(out) : \E j \in 1..Len(out') : out'[j] = out[i]
               /\ \A i, j \in 1..Len(out') : i # j => out'[i] # out'[j]
    ]_vars

\* a select that kept several entries of a mapping (which may be iterated
\* in more than one order)
C3_Witness ==
    /\ op = "tabula_selecta"
    /\ Cardinality(DOMAIN out) >= 2

\* C4: for a mapping m with injective values, inverting what invert(m)
\* returned gives m back, whatever the iteration order of either call.
C4_InversaInversa ==
    (op = "tabula_inversa" /\ Injective(tab_a)) =>
        \A ord \in iter(DOMAIN out) : tabula_inversa(out, ord) = tab_a

\* an invert of an injective mapping with several entries that is not its
\* own inverse
C4_Witness ==
    /\ op = "tabula_inversa"
    /\ Injective(tab_a)
    /\ Cardinality(DOMAIN tab_a) >= 2
    /\ out # tab_a

\* C5: difference(a, b) and difference(b, a) are disjoint and their union
\* is symmetricDifference(a, b); intersection(a, b), difference(a, b) and
\* difference(b, a) rebuild union(a, b).
C5_CopiaPartition ==
    /\ op = "copia_symmetrica" =>
           LET d1 == copia_differentia(cop_a, cop_b)
               d2 == copia_differentia(cop_b, cop_a)
           IN /\ copia_intersectio(d1, d2) = {}
              /\ copia_unio(d1, d2) = out
    /\ op = "copia_unio" =>
           out = copia_unio(copia_unio(copia_intersectio(cop_a, cop_b),
                                       copia_differentia(cop_a, cop_b)),
                            copia_differentia(cop_b, cop_a))

\* a symmetric difference of two overlapping sets, neither inside the other
C5_Witness ==
    /\ op = "copia_symmetrica"
    /\ cop_a \cap cop_b # {}
    /\ cop_a \ cop_b # {}
    /\ cop_b \ cop_a # {}

\* C6: lastN(seq, n) is the suffix of seq of length min(n, length(seq)), in
\* order: seq itself when n >= length(seq), empty when n = 0, and the start
\* index length(seq) - n saturates at 0 and stays within the sequence.
C6_UltimaSuffix ==
    op = "lista_ultima" =>
        LET len == Len(list)
            m   == IF n < len THEN n ELSE len
        IN /\ Len(out) = m
           /\ \A i \in 1..m : out[i] = list[len - m + i]
           /\ n >= len => out = list
           /\ n = 0 => out = <<>>
           /\ ultima_start(list, n) = len - m
           /\ ultima_start(list, n) \in 0..len

\* a lastN that asked for more elements than the sequence has
C6_Witness ==
    /\ op = "lista_ultima"
    /\ Len(list) >= 2
    /\ n > Len(list)
    /\ out = list

\* C7: unique(seq) has no two equal elements, has exactly the elements of
\* seq, and lists them in the order of their first occurrences in seq.
C7_UnicaFirstOccurrence ==
    op = "lista_unica" =>
        /\ \A i, j \in 1..Len(out) : i # j => out[i] # out[j]
        /\ elementa(out) = elementa(list)
        /\ \A i, j \in 1..Len(out) :
               i < j <=> FirstIdx(list, out[i]) < FirstIdx(list, out[j])

\* a unique that dropped a repetition separated from its first occurrence
C7_Witness ==
    /\ op = "lista_unica"
    /\ \E i, j, k \in 1..Len(list) :
           i < j /\ j < k /\ list[i] = list[k] /\ list[j] # list[i]
    /\ Len(out) = 2

\* C8: partition(seq, p) returns (yes, no) with yes the subsequence of seq
\* satisfying p and no the subsequence failing p, each in the original
\* order, so that yes ++ no has the length and the multiset of seq.
C8_PartireCorrect ==
    op = "lista_partire" =>
        LET holds(e) == pred[e]
            fails(e) == ~pred[e]
            yes == out[1]
            no  == out[2]
        IN /\ yes = SelectSeq(list, holds)
           /\ no = SelectSeq(list, fails)
           /\ Len(yes) + Len(no) = Len(list)
           /\ \A e \in Elems : Count(yes \o no, e) = Count(list, e)

\* a partition of a sequence in which the two kinds alternate
C8_Witness ==
    /\ op = "lista_partire"
    /\ Len(list) = 3
    /\ ~pred[list[1]] /\ pred[list[2]] /\ ~pred[list[3]]
    /\ list[1] # list[3]

\* C9: groupBy(seq, keyFn) has exactly the keys keyFn takes on seq (none
\* for an empty seq, no empty bucket), the bucket of k is the subsequence
\* of seq of the elements with key k in the original order, and the bucket
\* lengths add up to the length of seq.
C9_CongregaCorrect ==
    op = "lista_congrega" =>
        /\ DOMAIN out = {key_fn[list[i]] : i \in 1..Len(list)}
        /\ list = <<>> => out = tabula_vacua
        /\ \A k \in DOMAIN out :
               LET clavis(e) == key_fn[e] = k
               IN out[k] = SelectSeq(list, clavis) /\ out[k] # <<>>
        /\ SumLen(out, DOMAIN out) = Len(list)

\* a groupBy with two buckets, one of them filled from both ends of seq
C9_Witness ==
    /\ op = "lista_congrega"
    /\ Len(list) = 3
    /\ key_fn[list[1]] = key_fn[list[3]]
    /\ key_fn[list[1]] # key_fn[list[2]]
    /\ list[1] # list[3]

\* C10: sorted(seq) has the length of seq, every element as often as seq
\* has it, and is non-decreasing.
C10_OrdinataCorrect ==
    op = "lista_ordinata" =>
        /\ Len(out) = Len(list)
        /\ \A e \in Elems : Count(out, e) = Count(list, e)
        /\ \A i \in 1..(Len(out) - 1) : out[i] <= out[i + 1]

\* a sort of an unsorted sequence with a repeated element
C10_Witness ==
    /\ op = "lista_ordinata"
    /\ Len(list) = 3
    /\ list[1] = list[3]
    /\ list[2] < list[1]

====
